---- MODULE Spec2Model ----
(***************************************************************************)
(* Model of the request-authentication gate of                             *)
(*   src/0x02-Session_authentication/api/v1/auth/auth.py       (Auth)      *)
(*   src/0x02-Session_authentication/api/v1/auth/basic_auth.py (BasicAuth) *)
(*                                                                         *)
(* Two specifications share the variables:                                 *)
(*   SpecGate    - Auth.require_auth applied to a path and exclusion list  *)
(*   SpecResolve - BasicAuth.current_user, one step per stage              *)
(*                                                                         *)
(* Text of the gate is a sequence of one-character strings.  Text of the   *)
(* credential pipeline is a sequence of code points (and bytes), because   *)
(* Base64 and UTF-8 are arithmetic on them.                                *)
(***************************************************************************)
EXTENDS Integers, Sequences, FiniteSets, TLC

VARIABLES
    path,            \* require_auth: the path argument            [kind, val]
    excluded_paths,  \* require_auth: the excluded_paths argument  [kind, val]
    ra_result,       \* require_auth: "pending" | "true" | "false" | "raised"
    pc,              \* current_user: the stage about to run
    request,         \* current_user: the request argument
    auth_header,     \* current_user: authorization_header
    base64_header,   \* current_user: base64_header
    decoded_header,  \* current_user: decoded_header
    user_email,      \* current_user: user_email
    user_pwd,        \* current_user: user_pwd
    user_list,       \* user_object_from_credentials: result of User.search
    calls,           \* trace of the calls made to the user store
    cu_result        \* current_user: "pending" | "absent" | "raised" | a user

gateVars == <<path, excluded_paths, ra_result>>
resolveVars == <<pc, request, auth_header, base64_header, decoded_header,
                 user_email, user_pwd, user_list, calls, cu_result>>
vars == <<path, excluded_paths, ra_result, pc, request, auth_header,
          base64_header, decoded_header, user_email, user_pwd, user_list,
          calls, cu_result>>

(***************************************************************************)
(* Bounds of the model.                                                    *)
(***************************************************************************)
MaxPathLen == 3
MaxExcluded == 2

(***************************************************************************)
(* Python values: None, a str, or a value of another type.                 *)
(***************************************************************************)
None == [kind |-> "none", val |-> <<>>]
Str(s) == [kind |-> "str", val |-> s]
NonStr == [kind |-> "int", val |-> <<>>]
List(l) == [kind |-> "list", val |-> l]

RECURSIVE SeqsUpTo(_, _)
SeqsUpTo(S, n) ==
    IF n = 0 THEN {<<>>}
    ELSE LET shorter == SeqsUpTo(S, n - 1)
         IN  shorter \cup {Append(s, c) : s \in {t \in shorter : Len(t) = n - 1}, c \in S}

Drop(s, k) == SubSeq(s, k + 1, Len(s))

(***************************************************************************)
(*                       Auth.require_auth                                 *)
(***************************************************************************)

\* str.endswith('/')
EndsWithSlash(s) == Len(s) > 0 /\ s[Len(s)] = "/"

\* fnmatch.translate, the scan for the end of a character class opened just
\* before position i: the index of the closing ']' or Len(pat) + 1.
RECURSIVE ScanClass(_, _)
ScanClass(pat, j) ==
    IF j <= Len(pat) /\ pat[j] # "]" THEN ScanClass(pat, j + 1) ELSE j

ClassEnd(pat, i) ==
    LET j1 == IF i <= Len(pat) /\ pat[i] = "!" THEN i + 1 ELSE i
        j2 == IF j1 <= Len(pat) /\ pat[j1] = "]" THEN j1 + 1 ELSE j1
    IN  ScanClass(pat, j2)

\* fnmatch.translate: the pattern as a sequence of regular-expression items.
\*   star: .*    any: .    set: [stuff] or [^stuff]    lit: an escaped character
RECURSIVE Translate(_, _)
Translate(pat, i) ==
    IF i > Len(pat) THEN <<>>
    ELSE LET c == pat[i] IN
         IF c = "*" THEN
            \* a run of '*' is one '.*'
            IF i < Len(pat) /\ pat[i + 1] = "*" THEN Translate(pat, i + 1)
            ELSE <<[t |-> "star", neg |-> FALSE, chars |-> {}]>> \o Translate(pat, i + 1)
         ELSE IF c = "?" THEN
            <<[t |-> "any", neg |-> FALSE, chars |-> {}]>> \o Translate(pat, i + 1)
         ELSE IF c = "[" THEN
            LET j == ClassEnd(pat, i + 1) IN
            IF j > Len(pat) THEN
               <<[t |-> "lit", neg |-> FALSE, chars |-> {"["}]>> \o Translate(pat, i + 1)
            ELSE LET stuff == SubSeq(pat, i + 1, j - 1)
                     neg == stuff[1] = "!"
                     body == IF neg THEN Drop(stuff, 1) ELSE stuff
                 IN  <<[t |-> "set", neg |-> neg,
                        chars |-> {body[k] : k \in 1..Len(body)}]>>
                     \o Translate(pat, j + 1)
         ELSE <<[t |-> "lit", neg |-> FALSE, chars |-> {c}]>> \o Translate(pat, i + 1)

\* One regular-expression item against one character.
ItemMatches(item, ch) ==
    CASE item.t = "any" -> TRUE
      [] item.t = "lit" -> ch \in item.chars
      [] item.t = "set" -> (ch \in item.chars) # item.neg
      [] OTHER -> FALSE

\* A matcher in which '*' stops at a path separator, as a pathname glob does.
RECURSIVE ReMatchPathname(_, _)
ReMatchPathname(items, s) ==
    IF items = <<>> THEN s = <<>>
    ELSE IF Head(items).t = "star"
         THEN \E k \in 0..Len(s) :
                 /\ \A j \in 1..k : s[j] # "/"
                 /\ ReMatchPathname(Tail(items), Drop(s, k))
         ELSE s # <<>> /\ ItemMatches(Head(items), Head(s))
                       /\ ReMatchPathname(Tail(items), Tail(s))

\* re.match of the translated pattern, anchored at both ends (\Z), by backtracking.
RECURSIVE ReMatch(_, _)
ReMatch(items, s) ==
    IF items = <<>> THEN s = <<>>
    ELSE IF Head(items).t = "star"
         THEN \E k \in 0..Len(s) : ReMatch(Tail(items), Drop(s, Len(s) - k))
         ELSE s # <<>> /\ ItemMatches(Head(items), Head(s))
                       /\ ReMatch(Tail(items), Tail(s))

\* fnmatch.fnmatch(name, pat); os.path.normcase is the identity on POSIX.
fnmatch(name, pat) == ReMatch(Translate(pat, 1), name)

\* A loop that answers on its first entry (an else branch returning True).
MatchLoopFirstOnly(normalized_path, excluded, i) ==
    IF i > Len(excluded) THEN "true"
    ELSE IF fnmatch(normalized_path, excluded[i]) THEN "false"
    ELSE "true"

\* The for loop of require_auth from entry i on.
RECURSIVE MatchLoop(_, _, _)
MatchLoop(normalized_path, excluded, i) ==
    IF i > Len(excluded) THEN "true"
    ELSE IF fnmatch(normalized_path, excluded[i]) THEN "false"
    ELSE MatchLoop(normalized_path, excluded, i + 1)

\* require_auth with the empty-list test inverted.
require_auth_empty_exempt(p, ex) ==
    IF p.kind = "none" THEN "true"
    ELSE IF ex.kind = "none" \/ ex.val = <<>> THEN "false"
    ELSE IF p.kind # "str" THEN "raised"
    ELSE LET p1 == IF ~EndsWithSlash(p.val) THEN p.val \o <<"/">> ELSE p.val IN
         IF \E i \in 1..Len(ex.val) : ex.val[i] = p1 THEN "false"
         ELSE MatchLoop(p1, ex.val, 1)

\* require_auth without the trailing-separator normalization.
require_auth_no_normalize(p, ex) ==
    IF p.kind = "none" THEN "true"
    ELSE IF ex.kind = "none" \/ ex.val = <<>> THEN "true"
    ELSE IF p.kind # "str" THEN "raised"
    ELSE IF \E i \in 1..Len(ex.val) : ex.val[i] = p.val THEN "false"
    ELSE MatchLoop(p.val, ex.val, 1)

\* Auth.require_auth(path, excluded_paths): "true", "false" or "raised".
require_auth(p, ex) ==
    IF p.kind = "none" THEN "true"
    ELSE IF ex.kind = "none" \/ ex.val = <<>> THEN "true"
    ELSE IF p.kind # "str" THEN "raised"     \* no endswith on a non-str: AttributeError
    ELSE LET p1 == IF ~EndsWithSlash(p.val) THEN p.val \o <<"/">> ELSE p.val IN
         IF \E i \in 1..Len(ex.val) : ex.val[i] = p1 THEN "false"
         ELSE LET normalized_path == IF EndsWithSlash(p1) THEN p1 ELSE p1 \o <<"/">>
              IN  MatchLoop(normalized_path, ex.val, 1)

\* Request paths: every text over PathChars up to MaxPathLen, and the
\* documented examples.
PathChars == {"/", "a", "b"}
ApiStatus == <<"/","a","p","i","/","v","1","/","s","t","a","t","u","s">>
ApiStats == <<"/","a","p","i","/","v","1","/","s","t","a","t","s","/">>
ApiUsers55 == <<"/","a","p","i","/","v","1","/","u","s","e","r","s","/","5","5">>
ApiStatGlob == <<"/","a","p","i","/","v","1","/","s","t","a","t","*">>

PathTexts == SeqsUpTo(PathChars, MaxPathLen)
                 \cup {ApiStatus, ApiStatus \o <<"/">>, ApiStats, ApiUsers55}
PathInputs == {None, NonStr} \cup {Str(s) : s \in PathTexts}

\* Exclusion entries: literal paths with and without the trailing separator,
\* and patterns with each glob construct.
ExclusionPool ==
    { <<"/", "a", "/">>, <<"/", "a">>, <<"/", "a", "*">>, <<"*", "b", "/">>,
      <<"/", "?", "/">>, <<"/", "[", "a", "b", "]", "/">>, <<"/", "[", "!", "a", "]", "/">>,
      <<"[", "]", "/", "]", "a", "*">>, <<"/", "a", "*", "*", "/">>,
      <<"/", "[", "!", "]", "/">>,
      ApiStatus \o <<"/">>, ApiStatGlob }

ExcludedInputs == {None} \cup {List(l) : l \in SeqsUpTo(ExclusionPool, MaxExcluded)}


(***************************************************************************)
(*                 BasicAuth: the credential pipeline                      *)
(***************************************************************************)
MaxIdLen == 1
MaxSecretLen == 2
MaxMatches == 2

\* The literal "Basic " and the colon, as code points.
BasicPrefix == <<66, 97, 115, 105, 99, 32>>
Colon == 58
Pad == 61

\* Auth.authorization_header(request)
authorization_header(req) ==
    IF req.kind = "none" THEN None ELSE req.header

\* str.startswith
StartsWith(s, prefix) ==
    Len(s) >= Len(prefix) /\ SubSeq(s, 1, Len(prefix)) = prefix

\* A scheme strip that tests for "Basic" without the space.
extract_base64_no_space(h) ==
    IF h.kind = "none" THEN None
    ELSE IF h.kind # "str" THEN None
    ELSE IF ~StartsWith(h.val, SubSeq(BasicPrefix, 1, 5)) THEN None
    ELSE Str(SubSeq(h.val, Len(BasicPrefix) + 1, Len(h.val)))

\* BasicAuth.extract_base64_authorization_header(authorization_header)
extract_base64_authorization_header(h) ==
    IF h.kind = "none" THEN None
    ELSE IF h.kind # "str" THEN None
    ELSE IF ~StartsWith(h.val, BasicPrefix) THEN None
    ELSE Str(Drop(h.val, Len(BasicPrefix)))

\* binascii's table_a2b_base64: the 6-bit value of a character, 64 when the
\* character is not of the standard alphabet.
B64Value(c) ==
    IF c >= 65 /\ c <= 90 THEN c - 65
    ELSE IF c >= 97 /\ c <= 122 THEN c - 71
    ELSE IF c >= 48 /\ c <= 57 THEN c + 4
    ELSE IF c = 43 THEN 62
    ELSE IF c = 47 THEN 63
    ELSE 64

\* binascii.a2b_base64 with strict_mode off, as base64.b64decode calls it
\* (validate=False): characters outside the alphabet are skipped, a pad that
\* completes a quad ends the parse, and a quad left open is an error.
RECURSIVE A2B(_, _, _, _, _, _)
A2B(s, i, quad_pos, leftchar, pads, out) ==
    IF i > Len(s) THEN [ok |-> quad_pos = 0, bytes |-> out]
    ELSE IF s[i] = Pad THEN
        IF quad_pos >= 2 /\ quad_pos + pads + 1 >= 4
        THEN [ok |-> TRUE, bytes |-> out]
        ELSE A2B(s, i + 1, quad_pos, leftchar,
                 IF quad_pos >= 2 THEN pads + 1 ELSE pads, out)
    ELSE LET v == B64Value(s[i]) IN
        IF v >= 64 THEN A2B(s, i + 1, quad_pos, leftchar, pads, out)
        ELSE CASE quad_pos = 0 -> A2B(s, i + 1, 1, v, 0, out)
               [] quad_pos = 1 ->
                    A2B(s, i + 1, 2, v % 16, 0, Append(out, leftchar * 4 + (v \div 16)))
               [] quad_pos = 2 ->
                    A2B(s, i + 1, 3, v % 4, 0, Append(out, leftchar * 16 + (v \div 4)))
               [] OTHER ->
                    A2B(s, i + 1, 0, 0, 0, Append(out, leftchar * 64 + v))

a2b_base64(s) == A2B(s, 1, 0, 0, 0, <<>>)

\* bytes.decode('utf-8'), strict: the code points, or not ok.
IsCont(bs, i, lo, hi) == i <= Len(bs) /\ bs[i] >= lo /\ bs[i] <= hi

RECURSIVE Utf8Decode(_, _, _)
Utf8Decode(bs, i, out) ==
    IF i > Len(bs) THEN [ok |-> TRUE, text |-> out]
    ELSE LET b == bs[i] IN
        IF b < 128 THEN Utf8Decode(bs, i + 1, Append(out, b))
        ELSE IF b >= 194 /\ b <= 223 THEN
            IF IsCont(bs, i + 1, 128, 191)
            THEN Utf8Decode(bs, i + 2, Append(out, (b - 192) * 64 + (bs[i + 1] - 128)))
            ELSE [ok |-> FALSE, text |-> <<>>]
        ELSE IF b >= 224 /\ b <= 239 THEN
            IF /\ IsCont(bs, i + 1, IF b = 224 THEN 160 ELSE 128, IF b = 237 THEN 159 ELSE 191)
               /\ IsCont(bs, i + 2, 128, 191)
            THEN Utf8Decode(bs, i + 3,
                     Append(out, (b - 224) * 4096 + (bs[i + 1] - 128) * 64 + (bs[i + 2] - 128)))
            ELSE [ok |-> FALSE, text |-> <<>>]
        ELSE IF b >= 240 /\ b <= 244 THEN
            IF /\ IsCont(bs, i + 1, IF b = 240 THEN 144 ELSE 128, IF b = 244 THEN 143 ELSE 191)
               /\ IsCont(bs, i + 2, 128, 191)
               /\ IsCont(bs, i + 3, 128, 191)
            THEN Utf8Decode(bs, i + 4,
                     Append(out, (b - 240) * 262144 + (bs[i + 1] - 128) * 4096
                                 + (bs[i + 2] - 128) * 64 + (bs[i + 3] - 128)))
            ELSE [ok |-> FALSE, text |-> <<>>]
        ELSE [ok |-> FALSE, text |-> <<>>]

\* str.encode('ascii') succeeds
IsAscii(s) == \A i \in 1..Len(s) : s[i] < 128

Raised == [kind |-> "raised", val |-> <<>>]

\* BasicAuth.decode_base64_authorization_header(base64_authorization_header):
\* a str, None, or Raised when an exception leaves the method.  b64decode
\* raises ValueError for a str with a non-ASCII character; the except clause
\* names binascii.Error and UnicodeDecodeError only.
decode_base64_authorization_header(b) ==
    IF b.kind = "none" THEN None
    ELSE IF b.kind # "str" THEN None
    ELSE IF ~IsAscii(b.val) THEN Raised
    ELSE LET decoded_bytes == a2b_base64(b.val) IN
         IF ~decoded_bytes.ok THEN None
         ELSE LET text == Utf8Decode(decoded_bytes.bytes, 1, <<>>) IN
              IF text.ok THEN Str(text.text) ELSE None

\* str.split(':', 1): the index of the first colon, 0 when there is none.
RECURSIVE FirstColon(_, _)
FirstColon(s, i) ==
    IF i > Len(s) THEN 0
    ELSE IF s[i] = Colon THEN i
    ELSE FirstColon(s, i + 1)

\* The index of the last colon, 0 when there is none.
RECURSIVE LastColon(_, _)
LastColon(s, i) ==
    IF i = 0 THEN 0
    ELSE IF s[i] = Colon THEN i
    ELSE LastColon(s, i - 1)

\* A split on the last colon (rsplit).
extract_user_credentials_last_colon(d) ==
    IF d.kind = "none" THEN <<None, None>>
    ELSE IF d.kind # "str" THEN <<None, None>>
    ELSE LET k == LastColon(d.val, Len(d.val)) IN
         IF k = 0 THEN <<None, None>>
         ELSE <<Str(SubSeq(d.val, 1, k - 1)), Str(Drop(d.val, k))>>

\* BasicAuth.extract_user_credentials(decoded_base64_authorization_header)
extract_user_credentials(d) ==
    IF d.kind = "none" THEN <<None, None>>
    ELSE IF d.kind # "str" THEN <<None, None>>
    ELSE LET k == FirstColon(d.val, 1) IN
         IF k = 0 THEN <<None, None>>
         ELSE <<Str(SubSeq(d.val, 1, k - 1)), Str(Drop(d.val, k))>>


(***************************************************************************)
(* The client side of the wire format (RFC 4648 Base64 of the UTF-8 of     *)
(* identifier:secret), used to draw the requests.                          *)
(***************************************************************************)
RECURSIVE Utf8Encode(_)
Utf8Encode(text) ==
    IF text = <<>> THEN <<>>
    ELSE LET c == Head(text) IN
         (IF c < 128 THEN <<c>>
          ELSE IF c < 2048 THEN <<192 + (c \div 64), 128 + (c % 64)>>
          ELSE <<224 + (c \div 4096), 128 + ((c \div 64) % 64), 128 + (c % 64)>>)
         \o Utf8Encode(Tail(text))

B64Char(v) ==
    IF v < 26 THEN v + 65
    ELSE IF v < 52 THEN v + 71
    ELSE IF v < 62 THEN v - 4
    ELSE IF v = 62 THEN 43 ELSE 47

RECURSIVE B64Encode(_)
B64Encode(bs) ==
    IF bs = <<>> THEN <<>>
    ELSE IF Len(bs) = 1 THEN
        <<B64Char(bs[1] \div 4), B64Char((bs[1] % 4) * 16), Pad, Pad>>
    ELSE IF Len(bs) = 2 THEN
        <<B64Char(bs[1] \div 4), B64Char((bs[1] % 4) * 16 + (bs[2] \div 16)),
          B64Char((bs[2] % 16) * 4), Pad>>
    ELSE <<B64Char(bs[1] \div 4), B64Char((bs[1] % 4) * 16 + (bs[2] \div 16)),
           B64Char((bs[2] % 16) * 4 + (bs[3] \div 64)), B64Char(bs[3] % 64)>>
         \o B64Encode(Drop(bs, 3))

\* Identifiers hold no colon; secrets may.  233 takes two bytes of UTF-8 and
\* 8364 three.
IdChars == {97, 233}
SecretChars == {Colon, 8364}
Identifiers == SeqsUpTo(IdChars, MaxIdLen)
Secrets == SeqsUpTo(SecretChars, MaxSecretLen)

Payload(id, secret) == B64Encode(Utf8Encode(id \o <<Colon>> \o secret))

\* Every well-formed credential with its payload.
Credentials ==
    {[id |-> id, secret |-> secret, payload |-> Payload(id, secret)] :
        id \in Identifiers, secret \in Secrets}

ValidPayloads == {c.payload : c \in Credentials}

\* Characters a damaged payload may carry: space, '!', a non-ASCII letter, '='.
StrayChars == {32, 33, 233, Pad}

Insert(s, k, c) == SubSeq(s, 1, k) \o <<c>> \o Drop(s, k)

DamagedPayloads ==
    UNION {{Insert(s, k, c) : k \in 0..Len(s), c \in StrayChars} : s \in ValidPayloads}
    \cup UNION {{SubSeq(s, 1, k) : k \in 0..Len(s)} : s \in ValidPayloads}
    \cup { B64Encode(<<97, 98>>),           \* "ab": no colon
           B64Encode(<<255>>),             \* not UTF-8
           B64Encode(<<195>>),             \* a truncated UTF-8 sequence
           B64Encode(<<97, Colon, 237, 160, 128>>) }   \* a surrogate

\* Scheme prefixes that are not the literal "Basic ": "basic ", "Basic",
\* "BASIC ", "Bearer ", "Basic\t" and nothing.
WrongPrefixes ==
    { <<98, 97, 115, 105, 99, 32>>, <<66, 97, 115, 105, 99>>,
      <<66, 65, 83, 73, 67, 32>>, <<66, 101, 97, 114, 101, 114, 32>>,
      <<66, 97, 115, 105, 99, 9>>, <<>> }

HeaderTexts ==
    {BasicPrefix \o p : p \in ValidPayloads \cup DamagedPayloads}
    \cup {w \o p : w \in WrongPrefixes, p \in ValidPayloads}

NoRequest == [kind |-> "none", header |-> None]
Request(h) == [kind |-> "req", header |-> h]

Requests ==
    {NoRequest, Request(None), Request(NonStr)} \cup {Request(Str(h)) : h \in HeaderTexts}

\* The user store answers a search with a list of users, in its own order.
Users == {"u1", "u2"}
SearchResults == SeqsUpTo(Users, MaxMatches)

Pending == [kind |-> "pending", id |-> ""]
Absent == [kind |-> "absent", id |-> ""]
RaisedResult == [kind |-> "raised", id |-> ""]
User(u) == [kind |-> "user", id |-> u]

(***************************************************************************)
(*                         The state machines                              *)
(***************************************************************************)
GateIdle ==
    /\ path = None
    /\ excluded_paths = None
    /\ ra_result = "pending"

ResolveIdle ==
    /\ pc = "idle"
    /\ request = NoRequest
    /\ auth_header = None
    /\ base64_header = None
    /\ decoded_header = None
    /\ user_email = None
    /\ user_pwd = None
    /\ user_list = <<>>
    /\ calls = <<>>
    /\ cu_result = Pending

InitGate ==
    /\ path \in PathInputs
    /\ excluded_paths \in ExcludedInputs
    /\ ra_result = "pending"
    /\ ResolveIdle

\* A call of Auth.require_auth(path, excluded_paths).
RequireAuth ==
    /\ ra_result = "pending"
    /\ ra_result' = require_auth(path, excluded_paths)
    /\ UNCHANGED <<path, excluded_paths>>
    /\ UNCHANGED resolveVars

NextGate == RequireAuth

SpecGate == InitGate /\ [][NextGate]_vars

InitResolve ==
    /\ GateIdle
    /\ pc = "header"
    /\ request \in Requests
    /\ auth_header = None
    /\ base64_header = None
    /\ decoded_header = None
    /\ user_email = None
    /\ user_pwd = None
    /\ user_list = <<>>
    /\ calls = <<>>
    /\ cu_result = Pending

\* current_user returns value r.
Return(r) ==
    /\ cu_result' = r
    /\ pc' = "done"

\* current_user, stage 1: the header fetch.
FetchHeader ==
    /\ pc = "header"
    /\ LET h == authorization_header(request) IN
        /\ auth_header' = h
        /\ IF h = None THEN Return(Absent)
           ELSE pc' = "extract" /\ UNCHANGED cu_result
    /\ UNCHANGED <<base64_header, decoded_header, user_email, user_pwd, user_list, calls>>
    /\ UNCHANGED <<request>>
    /\ UNCHANGED gateVars

\* current_user, stage 2: the scheme strip.
SchemeStrip ==
    /\ pc = "extract"
    /\ LET b == extract_base64_authorization_header(auth_header) IN
        /\ base64_header' = b
        /\ IF b = None THEN Return(Absent)
           ELSE pc' = "decode" /\ UNCHANGED cu_result
    /\ UNCHANGED <<auth_header, decoded_header, user_email, user_pwd, user_list, calls>>
    /\ UNCHANGED <<request>>
    /\ UNCHANGED gateVars

\* current_user, stage 3: the decode.  An exception leaving the decode leaves
\* current_user too.
Decode ==
    /\ pc = "decode"
    /\ LET d == decode_base64_authorization_header(base64_header) IN
        IF d = Raised
        THEN /\ Return(RaisedResult)
             /\ UNCHANGED decoded_header
        ELSE /\ decoded_header' = d
             /\ IF d = None THEN Return(Absent)
                ELSE pc' = "split" /\ UNCHANGED cu_result
    /\ UNCHANGED <<auth_header, base64_header, user_email, user_pwd, user_list, calls>>
    /\ UNCHANGED <<request>>
    /\ UNCHANGED gateVars

\* current_user, stage 4: the split, and the argument guards of
\* user_object_from_credentials.
Split ==
    /\ pc = "split"
    /\ LET pair == extract_user_credentials(decoded_header) IN
        /\ user_email' = pair[1]
        /\ user_pwd' = pair[2]
        /\ IF pair[1] = None \/ pair[2] = None THEN Return(Absent)
           ELSE IF pair[1].kind # "str" \/ pair[2].kind # "str" THEN Return(Absent)
           ELSE pc' = "search" /\ UNCHANGED cu_result
    /\ UNCHANGED <<auth_header, base64_header, decoded_header, user_list, calls>>
    /\ UNCHANGED <<request>>
    /\ UNCHANGED gateVars

\* user_object_from_credentials: User.search({'email': user_email}).
Search ==
    /\ pc = "search"
    /\ \E found \in SearchResults :
        /\ user_list' = found
        /\ calls' = Append(calls, [op |-> "search", arg |-> user_email.val,
                                   user |-> "", ok |-> FALSE])
        /\ IF found = <<>> THEN Return(Absent)
           ELSE pc' = "verify" /\ UNCHANGED cu_result
    /\ UNCHANGED <<auth_header, base64_header, decoded_header, user_email, user_pwd>>
    /\ UNCHANGED <<request>>
    /\ UNCHANGED gateVars

\* A verify step that returns the user whatever the answer.
VerifyIgnored ==
    /\ pc = "verify"
    /\ LET user == user_list[1] IN
       \E accepted \in BOOLEAN :
        /\ calls' = Append(calls, [op |-> "verify", arg |-> user_pwd.val,
                                   user |-> user, ok |-> accepted])
        /\ Return(User(user))
    /\ UNCHANGED <<auth_header, base64_header, decoded_header, user_email, user_pwd, user_list>>
    /\ UNCHANGED <<request>>
    /\ UNCHANGED gateVars

\* user_object_from_credentials: user_list[0].is_valid_password(user_pwd).
Verify ==
    /\ pc = "verify"
    /\ LET user == user_list[1] IN
       \E accepted \in BOOLEAN :
        /\ calls' = Append(calls, [op |-> "verify", arg |-> user_pwd.val,
                                   user |-> user, ok |-> accepted])
        /\ IF ~accepted THEN Return(Absent) ELSE Return(User(user))
    /\ UNCHANGED <<auth_header, base64_header, decoded_header, user_email, user_pwd, user_list>>
    /\ UNCHANGED <<request>>
    /\ UNCHANGED gateVars

NextResolve ==
    \/ FetchHeader
    \/ SchemeStrip
    \/ Decode
    \/ Split
    \/ Search
    \/ Verify

SpecResolve == InitResolve /\ [][NextResolve]_vars


(***************************************************************************)
(*                 Properties of Auth.require_auth                         *)
(***************************************************************************)
GateCalled == ra_result # "pending"
HasExclusions == excluded_paths.kind = "list" /\ excluded_paths.val # <<>>

\* The path with a trailing separator enforced.
Normalized(p) == IF p # <<>> /\ p[Len(p)] = "/" THEN p ELSE p \o <<"/">>

\* C3: require_auth is fail-secure: it answers true for an absent path
\* whatever the exclusion list, and for an empty or absent exclusion list
\* whatever the path.
FailSecureDefault ==
    GateCalled =>
        /\ (path.kind = "none" => ra_result = "true")
        /\ (~HasExclusions => ra_result = "true")

FailSecureWitness ==
    /\ ra_result = "true"
    /\ path.kind = "none"
    /\ HasExclusions
    /\ excluded_paths.val[1] = <<"/", "a", "*">>

RECURSIVE Consumed(_, _, _)
Consumed(items, len, i) ==
    IF i = 0 THEN 0
    ELSE Consumed(items, len, i - 1) + (IF items[i].t = "star" THEN len[i] ELSE 1)

GlobMatches(pat, s) ==
    LET items == Translate(pat, 1)
        stars == {i \in 1..Len(items) : items[i].t = "star"}
    IN  \E len \in [stars -> 0..Len(s)] :
            /\ Consumed(items, len, Len(items)) = Len(s)
            /\ \A i \in (1..Len(items)) \ stars :
                   ItemMatches(items[i], s[Consumed(items, len, i)])

\* C5: for a present path and a non-empty exclusion list, require_auth
\* answers false exactly when the normalized path equals an entry or an
\* entry matches it as a shell glob, and true otherwise; "/api/v1/stats/"
\* is exempt under "/api/v1/stat*" and "/api/v1/users/55" is not.
ExemptExactlyWhenMatched ==
    (GateCalled /\ path.kind = "str" /\ HasExclusions) =>
        /\ ra_result \in {"true", "false"}
        /\ ra_result = "false" <=>
              \E i \in 1..Len(excluded_paths.val) :
                  \/ excluded_paths.val[i] = Normalized(path.val)
                  \/ GlobMatches(excluded_paths.val[i], Normalized(path.val))
        /\ (path = Str(ApiStats) /\ excluded_paths = List(<<ApiStatGlob>>)
               => ra_result = "false")
        /\ (path = Str(ApiUsers55) /\ excluded_paths = List(<<ApiStatGlob>>)
               => ra_result = "true")

ExemptByGlobWitness ==
    /\ ra_result = "false"
    /\ path = Str(ApiStats)
    /\ excluded_paths = List(<<ApiStatGlob>>)

\* The entries of l in the order perm gives.
Reordered(l, perm) == [i \in 1..Len(l) |-> l[perm[i]]]

\* C6: the order of the exclusion entries does not affect the answer, and
\* the call leaves the exclusion list as it was.
OrderOfExclusionsIrrelevant ==
    /\ [](GateCalled /\ excluded_paths.kind = "list" =>
            \A perm \in Permutations(1..Len(excluded_paths.val)) :
                require_auth(path, List(Reordered(excluded_paths.val, perm))) = ra_result)
    /\ [][excluded_paths' = excluded_paths]_vars

MatchAtSecondEntryWitness ==
    /\ ra_result = "false"
    /\ path.kind = "str"
    /\ excluded_paths.kind = "list"
    /\ Len(excluded_paths.val) = 2
    /\ require_auth(path, List(<<excluded_paths.val[1]>>)) = "true"
    /\ require_auth(path, List(<<excluded_paths.val[2]>>)) = "false"


(***************************************************************************)
(*               Properties of BasicAuth.current_user                      *)
(***************************************************************************)
Searches == {i \in 1..Len(calls) : calls[i].op = "search"}
Verifies == {i \in 1..Len(calls) : calls[i].op = "verify"}

\* C1: current_user returns a user only when the search returned at least
\* one match and the first match accepted the secret, and that user is the
\* first match; it returns absent after an empty search and after a
\* rejected secret.
ResolveOnlyFirstVerifiedMatch ==
    pc = "done" =>
        /\ cu_result.kind = "user" =>
              /\ user_list # <<>>
              /\ cu_result = User(user_list[1])
              /\ \E i \in Verifies :
                    /\ calls[i].user = user_list[1]
                    /\ calls[i].arg = user_pwd.val
                    /\ calls[i].ok
              /\ \A i \in Verifies : calls[i].ok
        /\ (Searches # {} /\ user_list = <<>>) => cu_result = Absent
        /\ (\E i \in Verifies : ~calls[i].ok) => cu_result = Absent

ResolvedFirstOfTwoWitness ==
    /\ pc = "done"
    /\ cu_result = User("u2")
    /\ user_list = <<"u2", "u1">>

\* C2: no public operation raises; each ends with a boolean or an absent
\* value.
NeverRaises ==
    /\ ra_result # "raised"
    /\ cu_result.kind # "raised"

\* The header "Basic " + base64(identifier + ":" + secret).
BasicHeader(c) == Str(BasicPrefix \o c.payload)

\* C7: scheme strip, decode and split of "Basic " + base64(id + ":" + secret)
\* give back exactly (id, secret), for an id without a colon and any secret;
\* the split is on the first colon.
RoundTripRecoversCredentials ==
    \A c \in Credentials :
        (auth_header = BasicHeader(c) /\ pc \notin {"extract", "decode", "split"}) =>
            /\ user_email = Str(c.id)
            /\ user_pwd = Str(c.secret)
            /\ base64_header = Str(c.payload)
            /\ decoded_header = Str(c.id \o <<Colon>> \o c.secret)

RoundTripColonSecretWitness ==
    /\ pc = "search"
    /\ user_email = Str(<<233>>)
    /\ user_pwd = Str(<<Colon, 8364>>)

\* The header starts with the six characters of "Basic ".
HasBasicScheme(h) ==
    /\ Len(h) >= 6
    /\ h[1] = 66 /\ h[2] = 97 /\ h[3] = 115 /\ h[4] = 105 /\ h[5] = 99 /\ h[6] = 32

\* C8: a header that does not start with the literal "Basic " yields absent,
\* whatever follows the scheme; nothing of it is decoded or looked up.
WrongSchemeYieldsAbsent ==
    (request.kind = "req" /\ request.header.kind = "str"
        /\ ~HasBasicScheme(request.header.val)) =>
        /\ pc \in {"header", "extract", "done"}
        /\ pc = "done" => cu_result = Absent
        /\ base64_header = None
        /\ calls = <<>>

WrongSchemeWitness ==
    /\ pc = "done"
    /\ cu_result = Absent
    /\ request.header = Str(<<98, 97, 115, 105, 99, 32>> \o Payload(<<97>>, <<Colon>>))

\* A character of the standard Base64 alphabet, or the pad.
InBase64Alphabet(c) ==
    \/ c >= 65 /\ c <= 90
    \/ c >= 97 /\ c <= 122
    \/ c >= 48 /\ c <= 57
    \/ c \in {43, 47, Pad}

\* C9: a payload with a character outside the standard Base64 alphabet is
\* refused by the decode stage, and current_user yields absent.
DecodeRefusesStrayCharacters ==
    (base64_header.kind = "str" /\ pc # "decode"
        /\ \E i \in 1..Len(base64_header.val) : ~InBase64Alphabet(base64_header.val[i])) =>
        /\ decoded_header = None
        /\ cu_result.kind \in {"pending", "absent"}
        /\ pc = "done" => cu_result = Absent

\* A stage before the lookup failed: no header, no payload, no decoded text
\* or no credential pair.
FailedBeforeLookup ==
    \/ pc \notin {"header"} /\ auth_header = None
    \/ pc \notin {"header", "extract"} /\ base64_header = None
    \/ pc \notin {"header", "extract", "decode"} /\ decoded_header = None
    \/ pc \notin {"header", "extract", "decode", "split"} /\ user_email = None

\* C10: a failure at a stage short-circuits the later ones: current_user
\* returns absent and the store is never looked up; verify is called only
\* after a search that returned a match; at most one search and one verify
\* are made.
StagesShortCircuit ==
    /\ FailedBeforeLookup => pc = "done" /\ cu_result = Absent /\ calls = <<>>
    /\ Cardinality(Searches) <= 1
    /\ Cardinality(Verifies) <= 1
    /\ \A i \in Verifies : i = 2 /\ calls[1].op = "search" /\ user_list # <<>>

\* What of C10 the code keeps even when the decode raises: the store is not
\* called after a failed stage, and the calls are one search, then at most
\* one verify.
StoreCallsShortCircuit ==
    /\ FailedBeforeLookup => pc = "done" /\ cu_result.kind # "user" /\ calls = <<>>
    /\ Cardinality(Searches) <= 1
    /\ Cardinality(Verifies) <= 1
    /\ \A i \in Verifies : i = 2 /\ calls[1].op = "search" /\ user_list # <<>>

====
